---- MODULE Spec2Model ----
(***************************************************************************)
(* Model of the iterative refinement orchestrator of Recurser               *)
(* (src/backend/app.py): the /api/videos/generate and /api/videos/upload    *)
(* endpoints, the background task generate_iterative_video, the single      *)
(* pass generate_video, the two logging functions and the score             *)
(* calculation.  One job row of the videos table is followed from its       *)
(* creation to the end of its task.  Every call to a collaborator (Veo,     *)
(* TwelveLabs, Gemini) is one action whose outcome is chosen                *)
(* nondeterministically.                                                    *)
(***************************************************************************)
EXTENDS Integers, Sequences, FiniteSets, TLC

(***************************************************************************)
(* Bounds of the model                                                      *)
(***************************************************************************)
MaxRetriesBound == 2
MaxPolls == 1
MaxIndicators == 2
MaxFindings == 1
MaxPublications == 3
QueueBound == 1            \* stands for queue.Queue(maxsize=100)
MaxCategories == 2         \* stands for the 15 entries of ai_detection_categories
MaxListLen == 2            \* longest list of arbitrary items given to a score function
MaxRepeat == 17            \* longest list of one repeated item given to a score function
MaxAttempts == 2           \* stands for the 10 that max_attempts is limited to

(***************************************************************************)
(* Program constants                                                        *)
(***************************************************************************)
DefaultMaxIterations == 3
NumAnalysisPrompts == 3
SearchPenaltyPerIndicator == 3
AnalysisPenaltyPerIssue == 8
PenaltyCap == 50
DefaultAiDetectionScore == 100
MaxWaitTime == 300
IndexPollInterval == 10
StatusConfidenceThreshold == 100

(***************************************************************************)
(* Values                                                                   *)
(***************************************************************************)
None == "None"
NoProgress == -1
NoScore == -1
NoHandle == 0
USAGE_LIMIT_EXCEEDED == -1

TargetScores == {0, 95}
MaxRetriesValues == (-1) .. MaxRetriesBound
ErrorTexts == {"error"}
TextClasses == {"neutral", "negative"}

\* a text is one phrase; TextClasses are the two kinds of answer the job's
\* task is followed with, the terms below are phrases of the two vocabularies
QualityIssueTerms == {"negative", "blurry", "artificial"}
AiIndicatorTerms == {"deepfake", "artificial"}

Subscribers == {"s1", "s2"}
VideoIds == {1, 2}

VARIABLES
  pc,        \* position of the request handler / background task
  db,        \* the job's row of the videos table
  loc,       \* locals of generate_iterative_video
  gv,        \* locals of generate_video / upload_video
  hist,      \* history of the job (see NoHistory); read by no action
  mem,       \* progress_logs, log_streams and the client queues of the job
  sse,       \* the event_generator coroutines of stream_video_logs
  response,  \* the last response a request handler returned
  det        \* locals of a call of detect_ai_generation or of a score function

\* the state kept for the observers of a job; the steps of the job's task
\* below follow the row of the job and leave it aside
observers == <<mem, sse, response, det>>

vars == <<pc, db, loc, gv, hist, mem, sse, response, det>>

(***************************************************************************)
(* Sequence helpers                                                         *)
(***************************************************************************)
Min(a, b) == IF a < b THEN a ELSE b
Max(a, b) == IF a > b THEN a ELSE b

Repeat(x, n) == [i \in 1..n |-> x]

Get(result, key, default) ==
  IF key \in DOMAIN result THEN result[key] ELSE default

(***************************************************************************)
(* History of the job.  Iterations are numbered from 1; 0 stands for       *)
(* "not so far".                                                            *)
(***************************************************************************)
NoHistory ==
  [started |-> 0,         \* iterations started (calls of generate_video)
   failedAt |-> 0,        \* first iteration whose generate_video caught an exception
   quotaAt |-> 0,         \* first iteration whose ingestion hit the usage limit
   offTrack |-> FALSE,    \* a collaborator call failed, or a score met the target
   declaredAt |-> 0,      \* iteration in which the success branch was taken
   noIndicatorsAt |-> 0,  \* iteration whose deciding analysis returned nothing
   refineFailedAt |-> 0,  \* latest iteration whose refinement call raised
   descAtRefineFail |-> 0,\* the prompt that iteration was generated from
   lastScore |-> 0,       \* quality score of the latest analysis that returned
   bestScore |-> 0,       \* highest score the iterations were given so far
   raisedAt |-> 0,        \* first iteration whose analysis or refinement raised
   cancelled |-> FALSE,   \* the job's task was cancelled
   passes |-> 0]          \* calls of detect_ai_generation in the latest iteration

HistFailed(h, i) ==
  [h EXCEPT !.failedAt = IF @ = 0 THEN i ELSE @, !.offTrack = TRUE]

HistQuota(h, i) ==
  [h EXCEPT !.quotaAt = IF @ = 0 THEN i ELSE @, !.offTrack = TRUE]

\* a call of detect_ai_generation returned
HistScore(h, quality_score, target) ==
  [h EXCEPT !.lastScore = quality_score,
            !.offTrack = @ \/ quality_score >= target,
            !.passes = @ + 1]

\* a call of detect_ai_generation raised
HistRaised(h) == [h EXCEPT !.offTrack = TRUE, !.passes = @ + 1]

\* an exception reaches the except branch of the loop in iteration i
HistCaught(h, i) == [h EXCEPT !.raisedAt = IF @ = 0 THEN i ELSE @]

(***************************************************************************)
(* The videos table row                                                     *)
(***************************************************************************)
NoRow ==
  [id |-> 0, prompt |-> 0, status |-> None, video_path |-> NoHandle,
   confidence_threshold |-> 100, current_confidence |-> 0, progress |-> 0,
   error_message |-> None, twelvelabs_video_id |-> NoHandle,
   iteration_count |-> 1, max_iterations |-> DefaultMaxIterations,
   ai_detection_score |-> 0, ai_detection_details |-> None,
   detailed_logs |-> << >>]

(***************************************************************************)
(* log_progress / log_detailed: the durable part (the row's status,         *)
(* progress and detailed_logs)                                              *)
(***************************************************************************)
log_progress(d, message, progress, status) ==
  [d EXCEPT !.progress = IF progress = NoProgress THEN @ ELSE progress,
            !.status = IF status = None THEN @ ELSE status,
            !.detailed_logs = Append(@, message)]

log_detailed(d, message) ==
  [d EXCEPT !.detailed_logs = Append(@, message)]

RECURSIVE log_detailed_all(_, _)
log_detailed_all(d, messages) ==
  IF messages = << >> THEN d
  ELSE log_detailed_all(log_detailed(d, Head(messages)), Tail(messages))

\* UPDATE videos SET detailed_logs = ? WHERE id = ?, for the video_id the
\* log function was called with: an id of no row updates nothing.  A
\* video_id is [id |-> the row id] or [twelvelabs_video_id |-> the handle]:
\* the id TwelveLabs gives a video is a string of 24 hexadecimal digits
log_detailed_where(d, video_id, messages) ==
  IF video_id = [id |-> d.id] THEN log_detailed_all(d, messages) ELSE d

(***************************************************************************)
(* log_progress / log_detailed: the part kept in memory                     *)
(***************************************************************************)
NoObservers ==
  [progress_logs |-> << >>,                     \* progress_logs[video_id]
   log_streams |-> << >>,                       \* log_streams[video_id]
   queues |-> [s \in Subscribers |-> << >>],    \* the client_queue of each stream
   pending |-> << >>,                           \* the call of a log function under way
   count |-> 0]                                 \* calls of the log functions so far

NoStream == [pc |-> "off", existing_logs |-> << >>, delivered |-> << >>]

NoResponse ==
  [request |-> [handler |-> None, video_id |-> 0, row_found |-> FALSE],
   reply |-> [status_code |-> 0, success |-> FALSE]]

\* no call of detect_ai_generation or of a score function under way
NoDetection == [stage |-> "none"]

\* the for loop of log_detailed over log_streams[video_id]: put_nowait on
\* every queue, a queue that raises is marked for removal
\* variant: the loop is left at the first queue that raises
RECURSIVE Broadcast_abort(_, _, _)
Broadcast_abort(streams, queues, log_entry) ==
  IF streams = << >> THEN [queues |-> queues, disconnected_queues |-> {}]
  ELSE IF Len(queues[Head(streams)]) < QueueBound
       THEN Broadcast_abort(Tail(streams),
                            [queues EXCEPT ![Head(streams)] = Append(@, log_entry)],
                            log_entry)
       ELSE [queues |-> queues, disconnected_queues |-> {Head(streams)}]

RECURSIVE Broadcast(_, _, _)
Broadcast(streams, queues, log_entry) ==
  IF streams = << >> THEN [queues |-> queues, disconnected_queues |-> {}]
  ELSE LET client_queue == Head(streams)
           rest == Broadcast(Tail(streams), queues, log_entry)
       IN IF Len(queues[client_queue]) < QueueBound
          THEN [queues |-> [rest.queues EXCEPT ![client_queue] = Append(@, log_entry)],
                disconnected_queues |-> rest.disconnected_queues]
          ELSE [queues |-> rest.queues,
                disconnected_queues |-> rest.disconnected_queues \cup {client_queue}]

Remove(streams, dead_queues) ==
  SelectSeq(streams, LAMBDA client_queue : client_queue \notin dead_queues)

log_progress_memory(m, log_entry) ==
  [m EXCEPT !.progress_logs = Append(@, log_entry)]

log_detailed_memory(m, log_entry) ==
  LET sent == Broadcast(m.log_streams, m.queues, log_entry)
  IN [m EXCEPT !.progress_logs = Append(@, log_entry),
               !.queues = sent.queues,
               !.log_streams = Remove(@, sent.disconnected_queues)]

RECURSIVE log_detailed_memory_all(_, _)
log_detailed_memory_all(m, messages) ==
  IF messages = << >> THEN m
  ELSE log_detailed_memory_all(log_detailed_memory(m, Head(messages)),
                               Tail(messages))

(***************************************************************************)
(* AIDetectionService                                                       *)
(***************************************************************************)
\* _analyze_with_pegasus: one dict per prompt that answered, with the keys
\* prompt / response / usage
PegasusResult(text) == [prompt |-> "analysis_prompt", response |-> text]

PegasusResults(texts) == [i \in 1..Len(texts) |-> PegasusResult(texts[i])]

\* _search_for_ai_indicators: the concatenation of the clips of all queries
SearchResults(n) == Repeat([category |-> "artifact"], n)

\* a dict is the record of its keys, an object the record [attrs |-> the
\* record of its attributes]
IsDict(result) == "attrs" \notin DOMAIN result

\* an attribute is read off an object that has it
getattr(result, name, default) ==
  IF ~IsDict(result) /\ name \in DOMAIN result.attrs THEN result.attrs[name]
  ELSE default

\* str.lower
Lower(text) == IF text = "Artificial" THEN "artificial" ELSE text

\* the `content` both score functions look at: result.get('content', '') of
\* a dict, str(result.content) of an object that has the attribute
Content(result) ==
  IF IsDict(result) THEN Lower(Get(result, "content", ""))
  ELSE Lower(getattr(result, "content", ""))

\* variant: the vocabulary of _calculate_ai_detection_score is used
IsQualityIssue_detection(result) == Content(result) \in AiIndicatorTerms

IsQualityIssue(result) == Content(result) \in QualityIssueTerms

RECURSIVE CountQualityIssues(_)
CountQualityIssues(analysis_results) ==
  IF analysis_results = << >> THEN 0
  ELSE (IF IsQualityIssue(Head(analysis_results)) THEN 1 ELSE 0)
       + CountQualityIssues(Tail(analysis_results))

\* variant: the empty case answers 0, as _calculate_ai_detection_score does
_calculate_quality_score_zero_when_empty(search_results, analysis_results) ==
  IF search_results = << >> /\ analysis_results = << >> THEN 0
  ELSE Max(100 - Min(Len(search_results) * SearchPenaltyPerIndicator, PenaltyCap)
               - Min(CountQualityIssues(analysis_results) * AnalysisPenaltyPerIssue,
                     PenaltyCap), 0)

_calculate_quality_score(search_results, analysis_results) ==
  IF search_results = << >> /\ analysis_results = << >> THEN 100
  ELSE LET search_penalty ==
             Min(Len(search_results) * SearchPenaltyPerIndicator, PenaltyCap)
           analysis_penalty ==
             Min(CountQualityIssues(analysis_results) * AnalysisPenaltyPerIssue,
                 PenaltyCap)
       IN Max(100 - search_penalty - analysis_penalty, 0)

\* numbers that Python computes as floats are kept as fractions
Frac(num, den) == [num |-> num, den |-> den]

FracMin(f, k) == IF f.num > k * f.den THEN Frac(k, 1) ELSE f

FracEq(f, g) == f.num * g.den = g.num * f.den

FracLeq(f, g) == f.num * g.den <= g.num * f.den

\* getattr(result, 'confidence', 0) or result.get('confidence', 0) or 0
RECURSIVE TotalConfidence(_)
TotalConfidence(search_results) ==
  IF search_results = << >> THEN 0
  ELSE LET result == Head(search_results)
           confidence ==
             IF getattr(result, "confidence", 0) # 0
             THEN getattr(result, "confidence", 0)
             ELSE Get(result, "confidence", 0)
       IN confidence + TotalConfidence(Tail(search_results))

\* getattr(result, 'severity', 'medium') or result.get('severity', 'medium')
\* or 'medium': the default of getattr is a true value, so the second and
\* third operands are evaluated for no dict and for no object without the
\* attribute
RECURSIVE TotalSeverity(_)
TotalSeverity(ai_indicating_results) ==
  IF ai_indicating_results = << >> THEN 0
  ELSE LET severity == getattr(Head(ai_indicating_results), "severity", "medium")
           severity_weights ==
             CASE severity = "high" -> 30
               [] severity = "medium" -> 20
               [] severity = "low" -> 10
               [] OTHER -> 20
       IN severity_weights + TotalSeverity(Tail(ai_indicating_results))

\* the weighted average 0.7 * search_score + 0.3 * analysis_score
Weighted(search_score, analysis_score) ==
  Frac(7 * search_score.num * analysis_score.den
         + 3 * analysis_score.num * search_score.den,
       10 * search_score.den * analysis_score.den)

\* the function ends with AttributeError, or returns final_score; the two
\* partial scores are kept with it
_calculate_ai_detection_score(search_results, analysis_results) ==
  IF search_results = << >> /\ analysis_results = << >>
  THEN [raises |-> FALSE, search_score |-> Frac(0, 1),
        analysis_score |-> Frac(0, 1), final_score |-> Frac(0, 1)]
  ELSE IF \E i \in DOMAIN search_results :
            /\ ~IsDict(search_results[i])
            /\ getattr(search_results[i], "confidence", 0) = 0
  THEN [raises |-> TRUE, search_score |-> Frac(0, 1),
        analysis_score |-> Frac(0, 1), final_score |-> Frac(0, 1)]
  ELSE
    LET search_score ==
          IF search_results # << >>
          THEN FracMin(Frac(TotalConfidence(search_results), Len(search_results)),
                       100)
          ELSE Frac(0, 1)
        ai_indicating_results == SelectSeq(analysis_results,
                    LAMBDA result : Content(result) \in AiIndicatorTerms)
        analysis_score ==
          IF ai_indicating_results # << >>
          THEN FracMin(Frac(TotalSeverity(ai_indicating_results),
                            Len(ai_indicating_results)), 100)
          ELSE Frac(0, 1)
        final_score ==
          IF search_score.num > 0 /\ analysis_score.num > 0
          THEN Weighted(search_score, analysis_score)
          ELSE IF search_score.num > 0 THEN search_score
          ELSE IF analysis_score.num > 0 THEN analysis_score
          ELSE Frac(0, 1)
    IN [raises |-> FALSE, search_score |-> search_score,
        analysis_score |-> analysis_score, final_score |-> final_score]

_create_detailed_logs(search_results, analysis_results, quality_score) ==
  LET n == Len(search_results)
      k == Len(analysis_results)
      marengo == IF n > 0
                 THEN <<"marengo: indicators detected">>
                      \o Repeat("marengo: indicator", Min(n, 5))
                      \o (IF n > 5 THEN <<"marengo: more indicators">> ELSE << >>)
                 ELSE <<"marengo: no indicators">>
      pegasus == IF k > 0
                 THEN <<"pegasus: issues found">>
                      \o Repeat("pegasus: issue", Min(k, 3))
                      \o (IF k > 3 THEN <<"pegasus: more issues">> ELSE << >>)
                 ELSE <<"pegasus: no issues">>
      rating == IF quality_score >= 90 THEN "rating: excellent"
                ELSE IF quality_score >= 70 THEN "rating: good"
                ELSE IF quality_score >= 50 THEN "rating: moderate"
                ELSE "rating: low"
  IN marengo \o pegasus \o <<"quality score", rating>>

\* detect_ai_generation, when nothing raises: the dict it returns
detect_ai_generation(search_results, analysis_results) ==
  LET quality_score == _calculate_quality_score(search_results, analysis_results)
  IN [search_results |-> search_results,
      analysis_results |-> analysis_results,
      quality_score |-> quality_score,
      detailed_logs |-> _create_detailed_logs(search_results, analysis_results,
                                              quality_score)]

\* what the collaborators can answer to one analysis run
AnalysisTexts ==
  UNION {[1..k -> TextClasses] : k \in 0..Min(MaxFindings, NumAnalysisPrompts)}

AnalysisOutcomes ==
  {detect_ai_generation(SearchResults(n), PegasusResults(texts)) :
     n \in 0..MaxIndicators, texts \in AnalysisTexts}

(***************************************************************************)
(* POST /api/videos/generate                                                *)
(***************************************************************************)
\* variant: max_retries is stored as submitted
StoredMaxIterations_raw(max_retries) == max_retries

StoredMaxIterations(max_retries) ==
  IF max_retries # 0 /\ max_retries > 0 THEN max_retries ELSE DefaultMaxIterations

PassedMaxIterations(max_retries) ==
  IF max_retries # 0 THEN max_retries ELSE DefaultMaxIterations

\* the VideoResponse the endpoint returns
GenerateResponse(d) ==
  [status_code |-> 200, success |-> TRUE, video_id |-> d.id, status |-> "pending"]

JobId == 1

\* the row the endpoint inserts and commits
\* variant: the row is inserted as already generating
InsertedRow_generating(confidence_threshold, max_retries) ==
  [NoRow EXCEPT !.id = JobId, !.status = "generating",
                !.confidence_threshold = confidence_threshold,
                !.progress = 10, !.iteration_count = 1,
                !.max_iterations = StoredMaxIterations(max_retries)]

InsertedRow(confidence_threshold, max_retries) ==
  [NoRow EXCEPT !.id = JobId, !.status = "pending",
                !.confidence_threshold = confidence_threshold,
                !.progress = 0, !.iteration_count = 1,
                !.max_iterations = StoredMaxIterations(max_retries)]

\* the log_detailed calls between the commit and add_task
SubmitMessages ==
  <<"debug: stored max_iterations", "request received",
    "target confidence", "max iterations">>

Request(handler, video_id, d) ==
  [handler |-> handler, video_id |-> video_id,
   row_found |-> d.id # NoRow.id /\ video_id = d.id]

\* the handler as far as the row, the scheduled task and the response go
SubmitGenerateRow(confidence_threshold, max_retries) ==
  /\ pc = "idle"
  /\ db' = log_detailed_all(InsertedRow(confidence_threshold, max_retries),
                            SubmitMessages)
  /\ loc' = [current_iteration |-> 1, current_confidence |-> 0,
             current_prompt |-> 0,
             target_confidence |-> confidence_threshold,
             max_iterations |-> PassedMaxIterations(max_retries)]
  /\ pc' = "loop"
  /\ response' = [request |-> Request("generate_video", 0, db),
                  reply |-> GenerateResponse(db')]
  /\ UNCHANGED <<gv, hist>>

SubmitGenerate(confidence_threshold, max_retries) ==
  /\ SubmitGenerateRow(confidence_threshold, max_retries)
  /\ UNCHANGED <<mem, sse, det>>

(***************************************************************************)
(* VideoGenerationService.generate_video                                    *)
(***************************************************************************)
\* the except branch of generate_video: the exception is recorded and
\* swallowed, the function returns normally
\* variant: the status is written without the message
GvExcept_noMessage(d, e) == [d EXCEPT !.status = "failed"]

GvExcept(d, e) == [d EXCEPT !.status = "failed", !.error_message = e]

\* the class named by that except clause
\* variant: the clause names BaseException
GvExceptClause_BaseException == "BaseException"

GvExceptClause == "Exception"

GvFail(e) ==
  /\ db' = GvExcept(db, e)
  /\ hist' = HistFailed(hist, loc.current_iteration)
  /\ pc' = "sleep"
  /\ UNCHANGED <<loc, gv>>

\* client.models.generate_videos
GvSubmitOk ==
  /\ pc = "gv_submit"
  /\ db' = log_detailed(log_progress(db, "using veo model", 15, None),
                        "using veo model")
  /\ pc' = "gv_poll"
  /\ UNCHANGED <<loc, gv, hist>>
  /\ UNCHANGED observers

GvSubmitFail(e) ==
  /\ pc = "gv_submit"
  /\ GvFail(e)
  /\ UNCHANGED observers

\* one turn of `while not operation.done`: the operation is not done, the
\* task logs, sleeps and asks again
GvPollPending ==
  /\ pc = "gv_poll"
  /\ gv.polls < MaxPolls
  /\ db' = log_detailed(log_progress(db, "waiting for generation", 20, None),
                        "polling veo")
  /\ gv' = [gv EXCEPT !.polls = @ + 1]
  /\ UNCHANGED <<pc, loc, hist>>
  /\ UNCHANGED observers

\* client.operations.get raises
GvPollFail(e) ==
  /\ pc = "gv_poll"
  /\ gv.polls < MaxPolls
  /\ db' = GvExcept(log_detailed(log_progress(db, "waiting for generation", 20, None),
                                 "polling veo"), e)
  /\ hist' = HistFailed(hist, loc.current_iteration)
  /\ pc' = "sleep"
  /\ UNCHANGED <<loc, gv>>
  /\ UNCHANGED observers

GenerationCompletedLogs(d) ==
  log_detailed(log_progress(
    log_detailed(log_progress(d, "generation completed", 30, None),
                 "generation completed"),
    "downloading video", 40, None), "downloading video")

\* operation.done: download the artifact, save it, start the upload
GvDownloadOk ==
  /\ pc = "gv_poll"
  /\ gv' = [gv EXCEPT !.video_path = loc.current_iteration]
  /\ db' = log_detailed(
             log_progress(
               log_detailed(GenerationCompletedLogs(db), "video saved for upload"),
               "uploading to twelvelabs", 50, "uploading"),
             "uploading video iteration")
  /\ pc' = "tl_create"
  /\ UNCHANGED <<loc, hist>>
  /\ UNCHANGED observers

GvDownloadFail(e) ==
  /\ pc = "gv_poll"
  /\ db' = GvExcept(GenerationCompletedLogs(db), e)
  /\ hist' = HistFailed(hist, loc.current_iteration)
  /\ pc' = "sleep"
  /\ UNCHANGED <<loc, gv>>
  /\ UNCHANGED observers

(***************************************************************************)
(* VideoGenerationService.upload_to_twelvelabs, as called by generate_video *)
(***************************************************************************)
TlCreateOk ==
  /\ pc = "tl_create"
  /\ db' = log_detailed(
             log_progress(log_detailed(db, "twelvelabs task created"),
                          "waiting for indexing", 55, None),
             "waiting for twelvelabs indexing")
  /\ pc' = "tl_wait"
  /\ UNCHANGED <<loc, gv, hist>>
  /\ UNCHANGED observers

\* the usage-limit branch of generate_video
UsageLimitReached(d, video_path) ==
  [log_progress(d, "usage limit reached - video saved locally", 90, "completed")
     EXCEPT !.status = "completed", !.progress = 100,
            !.video_path = video_path,
            !.ai_detection_score = 0,
            !.ai_detection_details = "usage limit reached - analysis skipped"]

GvQuota(d) ==
  /\ db' = UsageLimitReached(d, gv.video_path)
  /\ hist' = HistQuota(hist, loc.current_iteration)
  /\ pc' = "sleep"
  /\ UNCHANGED <<loc, gv>>

TlCreateQuota ==
  /\ pc = "tl_create"
  /\ GvQuota(db)
  /\ UNCHANGED observers

TlCreateFail(e) ==
  /\ pc = "tl_create"
  /\ GvFail(e)
  /\ UNCHANGED observers

\* the row once the artifact is indexed, up to the call of
\* detect_ai_generation
IndexedLogs(d, video_path, twelvelabs_video_id) ==
  log_progress(
    log_detailed_all(
      [log_progress([d EXCEPT !.twelvelabs_video_id = twelvelabs_video_id],
                    "starting ai detection analysis", 60, "analyzing")
         EXCEPT !.video_path = video_path,
                !.twelvelabs_video_id = twelvelabs_video_id],
      <<"video uploaded to twelvelabs", "twelvelabs id", "video saved locally">>),
    "searching for ai indicators", 65, None)

\* client.tasks.wait_for_done returns a task whose status is ready
TlWaitReady ==
  /\ pc = "tl_wait"
  /\ db' = IndexedLogs(db, gv.video_path, gv.video_path)
  /\ pc' = "gv_analyze"
  /\ UNCHANGED <<loc, gv, hist>>
  /\ UNCHANGED observers

TlWaitQuota ==
  /\ pc = "tl_wait"
  /\ GvQuota(db)
  /\ UNCHANGED observers

\* the task ends in another status, or the wait raises
TlWaitFail(e) ==
  /\ pc = "tl_wait"
  /\ GvFail(e)
  /\ UNCHANGED observers

(***************************************************************************)
(* generate_video: the analysis pass and the end of the function            *)
(***************************************************************************)
\* the dict of detect_ai_generation has no ai_detection_score key
GvAiDetectionScore(ai_analysis) ==
  Get(ai_analysis, "ai_detection_score", DefaultAiDetectionScore)

GvStoreAnalysis(d, ai_analysis) ==
  LET ai_detection_score == GvAiDetectionScore(ai_analysis)
      logged == log_progress(log_progress(d, "ai detection score", 70, None),
                             "quality score", 75, None)
  IN IF ai_analysis.detailed_logs # << >>
     THEN [logged EXCEPT !.detailed_logs = ai_analysis.detailed_logs,
                         !.ai_detection_score = ai_detection_score,
                         !.current_confidence = Max(0, 100 - ai_detection_score)]
     ELSE logged

GvAnalyzeReturn(ai_analysis) ==
  /\ pc = "gv_analyze"
  /\ LET stored == GvStoreAnalysis(db, ai_analysis)
     IN IF GvAiDetectionScore(ai_analysis) = 0
        THEN /\ db' = log_progress(stored, "success: video passes as real",
                                   100, "completed")
             /\ pc' = "sleep"
        ELSE /\ db' = log_progress(stored, "generating enhanced prompts", 80, None)
             /\ pc' = "gv_enhance"
  /\ hist' = HistScore(hist, ai_analysis.quality_score, loc.target_confidence)
  /\ UNCHANGED <<loc, gv>>
  /\ UNCHANGED observers

GvAnalyzeRaise ==
  /\ pc = "gv_analyze"
  /\ db' = log_progress(db, "generating enhanced prompts", 80, None)
  /\ hist' = HistRaised(hist)
  /\ pc' = "gv_enhance"
  /\ UNCHANGED <<loc, gv>>
  /\ UNCHANGED observers

\* PromptEnhancementService.enhance_prompt never raises (it returns the
\* original prompt when Gemini fails); the enhanced_prompt column it fills
\* is not part of the row modelled here
GvEnhance ==
  /\ pc = "gv_enhance"
  /\ db' = log_progress(db, "ai detection analysis completed", 100, "completed")
  /\ pc' = "sleep"
  /\ UNCHANGED <<loc, gv, hist>>
  /\ UNCHANGED observers

(***************************************************************************)
(* VideoGenerationService.generate_iterative_video                          *)
(***************************************************************************)
\* variant: the budget test is strict
LoopCondition_strict(l) ==
  /\ l.current_iteration < l.max_iterations
  /\ l.current_confidence < l.target_confidence

\* variant: the budget test allows one iteration more
LoopCondition_extra(l) ==
  /\ l.current_iteration <= l.max_iterations + 1
  /\ l.current_confidence < l.target_confidence

LoopCondition(l) ==
  /\ l.current_iteration <= l.max_iterations
  /\ l.current_confidence < l.target_confidence

\* the loop body up to the first collaborator call of generate_video
IterStart ==
  /\ pc = "loop"
  /\ LoopCondition(loc)
  /\ db' = log_progress(log_detailed(db, "starting iteration"),
                        "starting veo generation", 10, "generating")
  /\ gv' = [prompt |-> loc.current_prompt, polls |-> 0, video_path |-> NoHandle,
            wait_time |-> 0,
            twelvelabs_video_id |-> NoHandle]
  /\ hist' = [hist EXCEPT !.started = @ + 1, !.passes = 0]
  /\ pc' = "gv_submit"
  /\ UNCHANGED loc
  /\ UNCHANGED observers

LoopExit ==
  /\ pc = "loop"
  /\ ~LoopCondition(loc)
  /\ pc' = "final"
  /\ UNCHANGED <<db, loc, gv, hist>>
  /\ UNCHANGED observers

\* current_iteration += 1 and the check that follows it
EndOfIteration(l) ==
  [l EXCEPT !.current_iteration = @ + 1]

PcAfterIteration(l) ==
  IF l.current_confidence >= l.target_confidence THEN "final" ELSE "loop"

\* after asyncio.sleep(30): read twelvelabs_video_id back from the row
AfterSleep ==
  /\ pc = "sleep"
  /\ IF db.twelvelabs_video_id # NoHandle
     THEN /\ db' = log_detailed(db, "running ai detection analysis")
          /\ pc' = "it_analyze"
          /\ loc' = loc
     ELSE /\ db' = db
          /\ loc' = EndOfIteration(loc)
          /\ pc' = PcAfterIteration(loc')
  /\ UNCHANGED <<gv, hist>>
  /\ UNCHANGED observers

ItStoreLogs(d, ai_analysis) ==
  LET logged == log_detailed(d, "quality score")
  IN IF ai_analysis.detailed_logs # << >>
     THEN [logged EXCEPT !.detailed_logs = ai_analysis.detailed_logs]
     ELSE logged

\* variant: the confidence stored on success is derived from the detection
\* score, as generate_video derives it
ItSuccess_detection(d, quality_score, current_iteration) ==
  [log_detailed(d, "success: video passes as real")
     EXCEPT !.current_confidence = Max(0, 100 - DefaultAiDetectionScore),
            !.iteration_count = current_iteration,
            !.status = "completed"]

ItSuccess(d, quality_score, current_iteration) ==
  [log_detailed(d, "success: video passes as real")
     EXCEPT !.current_confidence = quality_score,
            !.iteration_count = current_iteration,
            !.status = "completed"]

ItStoreConfidence(d, current_confidence, current_iteration) ==
  [d EXCEPT !.current_confidence = current_confidence,
            !.iteration_count = current_iteration]

NoIndicators(ai_analysis) ==
  ai_analysis.search_results = << >> /\ ai_analysis.analysis_results = << >>

ItAnalyzeReturn(ai_analysis) ==
  /\ pc = "it_analyze"
  /\ LET quality_score == ai_analysis.quality_score
         stored == ItStoreLogs(db, ai_analysis)
         scored == [HistScore(hist, quality_score, loc.target_confidence)
                      EXCEPT !.noIndicatorsAt = IF NoIndicators(ai_analysis)
                                                THEN loc.current_iteration ELSE @,
                             !.bestScore = Max(@, quality_score)]
     IN IF quality_score >= loc.target_confidence
        THEN /\ db' = ItSuccess(stored, quality_score, loc.current_iteration)
             /\ loc' = [loc EXCEPT !.current_confidence = 100]
             /\ hist' = [scored EXCEPT !.declaredAt = loc.current_iteration]
             /\ pc' = "final"
        ELSE /\ db' = ItStoreConfidence(stored, quality_score,
                                        loc.current_iteration)
             /\ hist' = scored
             /\ IF quality_score < loc.target_confidence
                   /\ loc.current_iteration < loc.max_iterations
                THEN /\ loc' = [loc EXCEPT !.current_confidence = quality_score]
                     /\ pc' = "refine"
                ELSE /\ loc' = EndOfIteration(
                                 [loc EXCEPT !.current_confidence = quality_score])
                     /\ pc' = PcAfterIteration(loc')
  /\ UNCHANGED gv
  /\ UNCHANGED observers

\* the except branch of the analysis step
ItExcept(l) == [l EXCEPT !.current_confidence = 0]

ItAnalyzeRaise ==
  /\ pc = "it_analyze"
  /\ loc' = EndOfIteration(ItExcept(loc))
  /\ pc' = PcAfterIteration(loc')
  /\ hist' = HistCaught(HistRaised(hist), loc.current_iteration)
  /\ UNCHANGED <<db, gv>>
  /\ UNCHANGED observers

\* client.models.generate_content answers: its text is the next prompt
RefineOk ==
  /\ pc = "refine"
  /\ loc' = EndOfIteration([loc EXCEPT !.current_prompt = loc.current_iteration])
  /\ pc' = PcAfterIteration(loc')
  /\ UNCHANGED <<db, gv, hist>>
  /\ UNCHANGED observers

\* client.models.generate_content raises inside the try of the analysis step
\* variant: a failed refinement falls back to the original prompt
RefineFailed_reset(l) == [l EXCEPT !.current_confidence = 0, !.current_prompt = 0]

RefineFailed(l) == ItExcept(l)

RefineFail ==
  /\ pc = "refine"
  /\ loc' = EndOfIteration(RefineFailed(loc))
  /\ pc' = PcAfterIteration(loc')
  /\ hist' = [HistCaught(hist, loc.current_iteration)
                 EXCEPT !.refineFailedAt = loc.current_iteration,
                        !.descAtRefineFail = gv.prompt]
  /\ UNCHANGED <<db, gv>>
  /\ UNCHANGED observers

FinalStatusUpdate(d) == [d EXCEPT !.status = "completed", !.progress = 100]

Finalize ==
  /\ pc = "final"
  /\ db' = FinalStatusUpdate(db)
  /\ pc' = "done"
  /\ UNCHANGED <<loc, gv, hist>>
  /\ UNCHANGED observers

(***************************************************************************)
(* POST /api/videos/upload                                                  *)
(***************************************************************************)
\* the row is inserted and upload_to_twelvelabs is entered
SubmitUpload ==
  /\ pc = "idle"
  /\ db' = log_detailed([NoRow EXCEPT !.id = 1, !.status = "uploading",
                                      !.video_path = 1, !.progress = 50],
                        "uploading video iteration")
  /\ gv' = [gv EXCEPT !.video_path = 1]
  /\ pc' = "up_create"
  /\ UNCHANGED <<loc, hist>>
  /\ UNCHANGED observers

\* the except branch around the upload: status and error_message together
UploadExcept(d, upload_error) ==
  [d EXCEPT !.status = "failed", !.error_message = upload_error]

UpFail(e) ==
  /\ db' = UploadExcept(db, e)
  /\ hist' = hist
  /\ pc' = "up_done"
  /\ UNCHANGED <<loc, gv>>

\* upload_to_twelvelabs has returned twelvelabs_video_id (a handle or the
\* usage-limit marker): the indexing poll starts
UpStartIndexPoll(d, twelvelabs_video_id) ==
  /\ db' = log_progress(d, "waiting for indexing to complete", 60, "indexing")
  /\ gv' = [gv EXCEPT !.twelvelabs_video_id = twelvelabs_video_id,
                      !.wait_time = 0]
  /\ pc' = "up_index"
  /\ UNCHANGED <<loc, hist>>

UpCreateOk ==
  /\ pc = "up_create"
  /\ db' = log_detailed(
             log_progress(log_detailed(db, "twelvelabs task created"),
                          "waiting for indexing", 55, None),
             "waiting for twelvelabs indexing")
  /\ pc' = "up_wait"
  /\ UNCHANGED <<loc, gv, hist>>
  /\ UNCHANGED observers

UpCreateQuota ==
  /\ pc = "up_create"
  /\ UpStartIndexPoll(db, USAGE_LIMIT_EXCEEDED)
  /\ UNCHANGED observers

UpCreateFail(e) ==
  /\ pc = "up_create"
  /\ UpFail(e)
  /\ UNCHANGED observers

UpWaitReady ==
  /\ pc = "up_wait"
  /\ UpStartIndexPoll([db EXCEPT !.twelvelabs_video_id = gv.video_path],
                      gv.video_path)
  /\ UNCHANGED observers

UpWaitQuota ==
  /\ pc = "up_wait"
  /\ UpStartIndexPoll(db, USAGE_LIMIT_EXCEEDED)
  /\ UNCHANGED observers

UpWaitFail(e) ==
  /\ pc = "up_wait"
  /\ UpFail(e)
  /\ UNCHANGED observers

\* the end of upload_video once the indexing poll is over
UploadFinished(d, twelvelabs_video_id, wait_time) ==
  LET timed == IF wait_time >= MaxWaitTime
               THEN log_progress(d, "indexing timeout - proceeding", 70, "analyzing")
               ELSE d
  IN IF twelvelabs_video_id = USAGE_LIMIT_EXCEEDED
     THEN [timed EXCEPT !.status = "completed", !.progress = 100,
                        !.ai_detection_score = 0,
                        !.ai_detection_details =
                          "usage limit reached - analysis skipped"]
     ELSE [timed EXCEPT !.status = "uploaded", !.progress = 100]

\* client.indexes.videos.retrieve reports indexed_at: break
UpIndexed ==
  /\ pc = "up_index"
  /\ gv.wait_time < MaxWaitTime
  /\ db' = UploadFinished(db, gv.twelvelabs_video_id, gv.wait_time)
  /\ pc' = "up_done"
  /\ UNCHANGED <<loc, gv, hist>>
  /\ UNCHANGED observers

\* not indexed yet, or the retrieve raises: sleep, count, log
UpIndexPending ==
  /\ pc = "up_index"
  /\ gv.wait_time < MaxWaitTime
  /\ LET wait_time == gv.wait_time + IndexPollInterval
         logged == log_progress(db, "still waiting for indexing",
                                60 + (wait_time \div IndexPollInterval), "indexing")
     IN /\ gv' = [gv EXCEPT !.wait_time = wait_time]
        /\ IF wait_time < MaxWaitTime
           THEN /\ db' = logged
                /\ pc' = pc
           ELSE /\ db' = UploadFinished(logged, gv.twelvelabs_video_id, wait_time)
                /\ pc' = "up_done"
  /\ UNCHANGED <<loc, hist>>
  /\ UNCHANGED observers

(***************************************************************************)
(* The event loop.  Every handler and task is a coroutine of one loop: a    *)
(* coroutine keeps the loop until it reaches an await that suspends it      *)
(* (asyncio.sleep); the calls of the Veo, TwelveLabs and Gemini clients are *)
(* plain calls and keep it.                                                 *)
(***************************************************************************)
\* positions at which the job's task is suspended in asyncio.sleep
AwaitPoints == {"gv_poll", "gv_polling", "sleep", "up_index"}

\* positions at which no task of the job is running
NotRunning == {"idle", "done", "up_done", "cancelled"}

TaskHoldsLoop ==
  /\ pc \notin AwaitPoints \cup NotRunning
  /\ ~(pc = "loop" /\ hist.started = 0)    \* scheduled by add_task, not started

LoopFree == ~TaskHoldsLoop /\ mem.pending = << >>

(***************************************************************************)
(* Calls of log_detailed / log_progress by the job's task, in the two       *)
(* halves of each function: memory first, then the row                      *)
(***************************************************************************)
LogEntry(n) == ToString(n)

SubmitGenerateObserved(confidence_threshold, max_retries) ==
  /\ SubmitGenerateRow(confidence_threshold, max_retries)
  /\ mem.pending = << >>
  /\ mem' = log_detailed_memory_all(mem, SubmitMessages)
  /\ UNCHANGED <<sse, det>>

LogDetailedPublish ==
  /\ db.id = JobId
  /\ mem.pending = << >>
  /\ mem.count < MaxPublications
  /\ LET log_entry == LogEntry(mem.count + 1)
     IN mem' = [log_detailed_memory(mem, log_entry)
                  EXCEPT !.pending = <<[kind |-> "detailed", log_entry |-> log_entry]>>,
                         !.count = @ + 1]
  /\ UNCHANGED <<pc, db, loc, gv, hist, det, sse, response>>

LogProgressPublish ==
  /\ db.id = JobId
  /\ mem.pending = << >>
  /\ mem.count < MaxPublications
  /\ LET log_entry == LogEntry(mem.count + 1)
     IN mem' = [log_progress_memory(mem, log_entry)
                  EXCEPT !.pending = <<[kind |-> "progress", log_entry |-> log_entry]>>,
                         !.count = @ + 1]
  /\ UNCHANGED <<pc, db, loc, gv, hist, det, sse, response>>

LogPersist ==
  /\ mem.pending # << >>
  /\ LET call == mem.pending[1]
     IN db' = IF call.kind = "detailed"
              THEN log_detailed(db, call.log_entry)
              ELSE log_progress(db, call.log_entry, NoProgress, None)
  /\ mem' = [mem EXCEPT !.pending = << >>]
  /\ UNCHANGED <<pc, loc, gv, hist, det, sse, response>>

(***************************************************************************)
(* GET /api/videos/{video_id}/status, /logs, /download                      *)
(***************************************************************************)
HTTPException(status_code, detail) ==
  [status_code |-> status_code, success |-> FALSE, detail |-> detail]

StatusDisplay(status) == IF status = "pending" THEN "starting" ELSE status

get_video_status(d, video_id) ==
  IF video_id # d.id
  THEN [status_code |-> 200, success |-> TRUE, video_id |-> video_id,
        status |-> "pending", progress |-> 0, iteration_count |-> 0,
        max_iterations |-> DefaultMaxIterations, final_confidence |-> 0,
        video_path |-> NoHandle, detailed_logs |-> << >>]
  ELSE [status_code |-> 200, success |-> TRUE, video_id |-> d.id,
        status |-> StatusDisplay(d.status), video_path |-> d.video_path,
        confidence_threshold |-> StatusConfidenceThreshold,
        current_confidence |-> d.current_confidence,
        progress |-> d.progress,
        iteration_count |-> d.iteration_count,
        max_iterations |-> d.max_iterations,
        detailed_logs |-> d.detailed_logs,
        target_confidence |-> StatusConfidenceThreshold,
        final_confidence |-> d.current_confidence]

GetVideoStatus(video_id) ==
  /\ LoopFree
  /\ video_id = db.id => mem.count < MaxPublications
  /\ response' = [request |-> Request("get_video_status", video_id, db),
                  reply |-> get_video_status(db, video_id)]
  /\ IF video_id = db.id
     THEN LET log_entry == LogEntry(mem.count + 1)
          IN /\ mem' = [log_detailed_memory(mem, log_entry) EXCEPT !.count = @ + 1]
             /\ db' = log_detailed(db, log_entry)
     ELSE UNCHANGED <<mem, db>>
  /\ UNCHANGED <<pc, loc, gv, hist, det, sse>>

RECURSIVE Unique(_, _)
Unique(all_logs, seen) ==
  IF all_logs = << >> THEN << >>
  ELSE IF Head(all_logs) \in seen THEN Unique(Tail(all_logs), seen)
       ELSE <<Head(all_logs)>> \o Unique(Tail(all_logs), seen \cup {Head(all_logs)})

get_video_logs(d, m, video_id) ==
  LET db_logs == IF video_id = d.id THEN d.detailed_logs ELSE << >>
      memory_logs == IF video_id = JobId THEN m.progress_logs ELSE << >>
  IN [status_code |-> 200, success |-> TRUE, video_id |-> video_id,
      logs |-> Unique(db_logs \o memory_logs, {})]

GetVideoLogs(video_id) ==
  /\ LoopFree
  /\ response' = [request |-> Request("get_video_logs", video_id, db),
                  reply |-> get_video_logs(db, mem, video_id)]
  /\ UNCHANGED <<pc, db, loc, gv, hist, det, mem, sse>>

\* the HTTPException(404) raised inside the try is caught by its own
\* `except Exception` and raised again as a 500
download_video(d, video_id, file_exists) ==
  IF video_id # d.id THEN HTTPException(500, "404: video not found")
  ELSE IF d.video_path = NoHandle THEN HTTPException(500, "404: video path not found")
  ELSE IF ~file_exists THEN HTTPException(500, "404: video file not found")
  ELSE [status_code |-> 200, success |-> TRUE, path |-> d.video_path]

DownloadVideo(video_id, file_exists) ==
  /\ LoopFree
  /\ response' = [request |-> Request("download_video", video_id, db),
                  reply |-> download_video(db, video_id, file_exists)]
  /\ UNCHANGED <<pc, db, loc, gv, hist, det, mem, sse>>

(***************************************************************************)
(* POST /api/videos/{video_id}/grade                                        *)
(***************************************************************************)
\* video[9], which the handler takes for the TwelveLabs id of the artifact,
\* is the error_message column.  Every HTTPException raised in the try, and
\* every other exception, is raised again as a 500 by `except Exception`.
\* raises: detect_ai_generation raises; analysis_results: what it returns
grade_video(d, video_id, raises, analysis_results) ==
  IF video_id # d.id THEN HTTPException(500, "404: video not found")
  ELSE LET twelvelabs_video_id == d.error_message
       IN IF twelvelabs_video_id = None
          THEN HTTPException(500, "400: video not indexed in twelvelabs")
          ELSE IF raises THEN HTTPException(500, "ai detection error")
          ELSE IF "ai_detection_score" \notin DOMAIN analysis_results
          THEN HTTPException(500, "KeyError: ai_detection_score")
          ELSE [status_code |-> 200, success |-> TRUE, data |-> analysis_results]

GradeVideo(video_id, raises, analysis_results) ==
  /\ LoopFree
  /\ response' = [request |-> [handler |-> "grade_video", video_id |-> video_id,
                               row_found |-> db.id # NoRow.id /\ video_id = db.id,
                               completed |-> db.status = "completed",
                               indexed |-> db.twelvelabs_video_id # NoHandle],
                  reply |-> grade_video(db, video_id, raises, analysis_results)]
  /\ UNCHANGED <<pc, db, loc, gv, hist, mem, sse, det>>

(***************************************************************************)
(* GET /api/videos/{video_id}/stream-logs: event_generator, one step per    *)
(* stretch between two suspensions (yield, asyncio.sleep)                   *)
(***************************************************************************)
\* variant: get leaves the entry at the head of the queue
QueueAfterGet_peek(client_queue) == client_queue

QueueAfterGet(client_queue) == Tail(client_queue)

\* a new queue is registered and the stored log is read
StreamConnect(s) ==
  /\ LoopFree
  /\ sse[s].pc = "off"
  /\ mem' = [mem EXCEPT !.log_streams = Append(@, s), !.queues[s] = << >>]
  /\ sse' = [sse EXCEPT ![s] = [pc |-> IF db.detailed_logs = << >>
                                      THEN "live" ELSE "replay",
                                existing_logs |-> db.detailed_logs,
                                delivered |-> << >>]]
  /\ UNCHANGED <<pc, db, loc, gv, hist, det, response>>

\* yield the next stored entry
StreamReplay(s) ==
  /\ LoopFree
  /\ sse[s].pc = "replay"
  /\ sse' = [sse EXCEPT ![s] =
               [pc |-> IF Len(sse[s].existing_logs) = 1 THEN "live" ELSE "replay",
                existing_logs |-> Tail(sse[s].existing_logs),
                delivered |-> Append(sse[s].delivered, Head(sse[s].existing_logs))]]
  /\ UNCHANGED <<pc, db, loc, gv, hist, det, mem, response>>

\* client_queue.get returns an entry, which is yielded
StreamDeliver(s) ==
  /\ LoopFree
  /\ sse[s].pc = "live"
  /\ mem.queues[s] # << >>
  /\ sse' = [sse EXCEPT ![s].delivered = Append(@, Head(mem.queues[s]))]
  /\ mem' = [mem EXCEPT !.queues[s] = QueueAfterGet(@)]
  /\ UNCHANGED <<pc, db, loc, gv, hist, det, response>>

\* the client goes away: CancelledError at the suspension
StreamDisconnect(s) ==
  /\ LoopFree
  /\ sse[s].pc \in {"replay", "live"}
  /\ mem' = [mem EXCEPT !.log_streams = Remove(@, {s})]
  /\ sse' = [sse EXCEPT ![s].pc = "closed"]
  /\ UNCHANGED <<pc, db, loc, gv, hist, det, response>>

(***************************************************************************)
(* AIDetectionService.detect_ai_generation, one step per collaborator call  *)
(***************************************************************************)
\* search_client.query raises, or answers with results.data: the clips of
\* one page (page_limit is 10)
SearchAnswers ==
  {[raises |-> TRUE, clips |-> 0]}
    \cup {[raises |-> FALSE, clips |-> n] : n \in {0, 1, 6}}

\* analyze_client.analyze raises, answers without data, or answers with a text
PegasusAnswers ==
  {[raises |-> TRUE, has_data |-> FALSE, text |-> ""],
   [raises |-> FALSE, has_data |-> FALSE, text |-> ""]}
    \cup {[raises |-> FALSE, has_data |-> TRUE, text |-> t] :
            t \in {"neutral", "artificial"}}

\* generate_video calls detect_ai_generation(index_id, twelvelabs_video_id,
\* api_key): the video_id of the run, and of its calls of log_detailed, is
\* the id TwelveLabs gave the artifact.  emitted: the entries the run has
\* called log_detailed with
StartDetection(queries, prompts) ==
  /\ pc = "gv_analyze"
  /\ det.stage = "none"
  /\ LET video_id == [twelvelabs_video_id |-> db.twelvelabs_video_id]
         messages == <<"starting ai detection analysis">>
     IN /\ det' = [stage |-> "search", queries |-> queries, prompts |-> prompts,
                   queried |-> 0, analyzed |-> 0,
                   search_results |-> << >>, analysis_results |-> << >>,
                   quality_score |-> NoScore, result |-> << >>,
                   ai_detection_score |-> NoScore,
                   video_id |-> video_id, emitted |-> messages]
        /\ db' = log_detailed_where(db, video_id, messages)
  /\ UNCHANGED <<pc, loc, gv, hist, mem, sse, response>>

\* the except clause of the loop over the categories: a warning, then the
\* next category
\* variant: the exception leaves _search_for_ai_indicators
QueryFailed_raise(d) == [d EXCEPT !.stage = "raised"]

QueryFailed(d) == d

\* one turn of the loop of _search_for_ai_indicators: log_detailed, then the
\* query; after the last turn log_detailed once more
SearchQuery ==
  /\ det.stage = "search"
  /\ LET answer == det.queries[det.queried + 1]
         asked == [det EXCEPT !.queried = @ + 1]
         turned == IF answer.raises THEN QueryFailed(asked)
                   ELSE [asked EXCEPT !.search_results =
                                        @ \o SearchResults(answer.clips)]
         last == turned.stage = "search" /\ turned.queried = Len(turned.queries)
         messages == <<"searching for ai indicators in video">>
                       \o (IF last THEN <<"search completed">> ELSE << >>)
     IN /\ det' = [turned EXCEPT !.stage = IF last THEN "analyze" ELSE @,
                                 !.emitted = @ \o messages]
        /\ db' = log_detailed_where(db, det.video_id, messages)
  /\ UNCHANGED <<pc, loc, gv, hist, mem, sse, response>>

\* one turn of the loop of _analyze_with_pegasus; its except clause logs a
\* warning and goes on to the next prompt
AnalyzePrompt ==
  /\ det.stage = "analyze"
  /\ LET answer == det.prompts[det.analyzed + 1]
         asked == [det EXCEPT !.analyzed = @ + 1]
         turned == IF answer.raises THEN asked
                   ELSE IF answer.has_data
                   THEN [asked EXCEPT !.analysis_results =
                                        Append(@, PegasusResult(answer.text))]
                   ELSE asked
     IN det' = IF turned.stage = "analyze" /\ turned.analyzed = Len(turned.prompts)
               THEN [turned EXCEPT !.stage = "score"]
               ELSE turned
  /\ UNCHANGED <<pc, db, loc, gv, hist, mem, sse, response>>

\* the quality score and the two calls of log_detailed that report it
DetectScore ==
  /\ det.stage = "score"
  /\ LET messages == <<"quality analysis", "quality score">>
     IN /\ det' = [det EXCEPT !.stage = "logs",
                              !.quality_score =
                                _calculate_quality_score(det.search_results,
                                                         det.analysis_results),
                              !.emitted = @ \o messages]
        /\ db' = log_detailed_where(db, det.video_id, messages)
  /\ UNCHANGED <<pc, loc, gv, hist, mem, sse, response>>

\* _create_detailed_logs returns and the dict is returned
DetectReturn ==
  /\ det.stage = "logs"
  /\ det' = [det EXCEPT !.stage = "returned",
                        !.result = detect_ai_generation(det.search_results,
                                                        det.analysis_results)]
  /\ UNCHANGED <<pc, db, loc, gv, hist, mem, sse, response>>

\* _create_detailed_logs calls result.get on every clip: a clip object of
\* the SDK that has no such method ends the run with AttributeError
DetectRaise ==
  /\ det.stage = "logs"
  /\ det.search_results # << >>
  /\ det' = [det EXCEPT !.stage = "raised"]
  /\ UNCHANGED <<pc, db, loc, gv, hist, mem, sse, response>>

\* generate_video reads the detection score off the dict it was returned
DetectStore ==
  /\ det.stage = "returned"
  /\ det' = [det EXCEPT !.stage = "stored",
                        !.ai_detection_score = GvAiDetectionScore(det.result)]
  /\ UNCHANGED <<pc, db, loc, gv, hist, mem, sse, response>>

(***************************************************************************)
(* The score functions, called on given lists                               *)
(***************************************************************************)
Indicators ==
  {[confidence |-> c] : c \in {0, 100}}
    \cup {[attrs |-> [confidence |-> c]] : c \in {0, 100}}

Findings ==
  {[content |-> "blurry", severity |-> "high"],
   [content |-> "deepfake", severity |-> "high"],
   [content |-> "Artificial", severity |-> "low"],
   [content |-> "neutral", severity |-> "high"],
   [attrs |-> [content |-> "deepfake", severity |-> "high"]],
   [attrs |-> [content |-> "artificial", severity |-> "low"]],
   PegasusResult("artificial")}

Lists(items, item) ==
  UNION {[1..n -> items] : n \in 0..MaxListLen}
    \cup {Repeat(item, n) : n \in 0..MaxRepeat}

\* RecursionEngine._calculate_overall_confidence: marengo_score on the scale
\* of 100, pegasus_confidence on the scale of 1
_calculate_overall_confidence_unclamped(marengo_score, pegasus_confidence) ==
  Weighted(marengo_score, Frac(100 * pegasus_confidence.num, pegasus_confidence.den))

_calculate_overall_confidence(marengo_score, pegasus_confidence) ==
  LET weighted_score ==
        Weighted(marengo_score,
                 Frac(100 * pegasus_confidence.num, pegasus_confidence.den))
  IN FracMin(IF weighted_score.num < 0 THEN Frac(0, 1) ELSE weighted_score,
             100)

\* the arguments of one call of the two score functions: every short list,
\* and the long lists of one repeated item
ScoreInputs ==
  {[stage |-> "score_functions", called |-> {},
    search_results |-> search_results, analysis_results |-> analysis_results,
    quality_score |-> NoScore,
    ai_detection_score |->
      [raises |-> FALSE, search_score |-> Frac(0, 1),
       analysis_score |-> Frac(0, 1), final_score |-> Frac(0, 1)]] :
     search_results \in Lists(Indicators, [confidence |-> 100]),
     analysis_results \in Lists(Findings,
                                [content |-> "blurry", severity |-> "high"])}

\* the arguments of one call of the engine's combination, inside and
\* outside the scales
EngineInputs ==
  {[stage |-> "engine", called |-> {},
    marengo_score |-> marengo_score, pegasus_confidence |-> pegasus_confidence,
    overall_confidence |-> Frac(0, 1)] :
     marengo_score \in {Frac(-20, 1), Frac(0, 1), Frac(135, 2), Frac(100, 1),
                        Frac(130, 1)},
     pegasus_confidence \in {Frac(0, 1), Frac(1, 2), Frac(1, 1), Frac(3, 1)}}

CalculateQualityScore ==
  /\ det.stage = "score_functions"
  /\ det' = [det EXCEPT !.called = @ \cup {"_calculate_quality_score"},
                        !.quality_score =
                          _calculate_quality_score(det.search_results,
                                                   det.analysis_results)]
  /\ UNCHANGED <<pc, db, loc, gv, hist, mem, sse, response>>

CalculateAiDetectionScore ==
  /\ det.stage = "score_functions"
  /\ det' = [det EXCEPT !.called = @ \cup {"_calculate_ai_detection_score"},
                        !.ai_detection_score =
                          _calculate_ai_detection_score(det.search_results,
                                                        det.analysis_results)]
  /\ UNCHANGED <<pc, db, loc, gv, hist, mem, sse, response>>

CalculateOverallConfidence ==
  /\ det.stage = "engine"
  /\ det' = [det EXCEPT !.called = @ \cup {"_calculate_overall_confidence"},
                        !.overall_confidence =
                          _calculate_overall_confidence(det.marengo_score,
                                                        det.pegasus_confidence)]
  /\ UNCHANGED <<pc, db, loc, gv, hist, mem, sse, response>>

(***************************************************************************)
(* RecursionEngine.process_video_generation / process_video_upload          *)
(* (services/recursion_engine.py), one step per stretch of awaited calls    *)
(***************************************************************************)
\* the locals of a call, and the dict it returns (final_video_path NoHandle
\* stands for None)
EngineLocals(function, confidence_threshold, max_attempts) ==
  [stage |-> "engine_loop", function |-> function,
   confidence_threshold |-> confidence_threshold, max_attempts |-> max_attempts,
   initial_confidence |-> Frac(0, 1), current_confidence |-> Frac(0, 1),
   attempt_count |-> 0, iterations |-> << >>,
   result |-> [success |-> FALSE, status |-> None, total_iterations |-> 0,
               final_video_path |-> NoHandle, error |-> None]]

\* process_video_generation as far as its loop: request.project_id,
\* request.prompt, request.confidence_threshold and request.max_attempts
\* are read.  A dict has no attributes: the AttributeError is caught by the
\* except clause of the function, which returns the failure
process_video_generation(request, function) ==
  IF IsDict(request)
  THEN [EngineLocals(function, request.confidence_threshold, request.max_attempts)
          EXCEPT !.stage = "engine_returned",
                 !.result.error = "recursion engine error"]
  ELSE EngineLocals(function, getattr(request, "confidence_threshold", 0),
                    getattr(request, "max_attempts", 0))

\* POST /api/videos/generate of api/main.py: the validated request object
ProcessVideoGeneration(request) ==
  /\ det.stage = "none"
  /\ det' = process_video_generation(request, "process_video_generation")
  /\ UNCHANGED <<pc, db, loc, gv, hist, mem, sse, response>>

\* one turn of the loop: generation, the two analyses, the combined
\* confidence; a collaborator that reports no success ends the call
EngineAttempt(generated, marengo_result, pegasus_result) ==
  /\ det.stage = "engine_loop"
  /\ det.attempt_count < det.max_attempts
  /\ det.current_confidence.num
       < det.confidence_threshold * det.current_confidence.den
  /\ LET attempt_count == det.attempt_count + 1
         counted == [det EXCEPT !.attempt_count = attempt_count]
         current_confidence ==
           _calculate_overall_confidence(marengo_result.marengo_score,
                                         pegasus_result.confidence_score)
     IN det' =
          IF ~generated
          THEN [counted EXCEPT !.stage = "engine_returned",
                               !.result.error = "video generation failed"]
          ELSE IF ~marengo_result.success
          THEN [counted EXCEPT !.stage = "engine_returned",
                               !.result.error = "marengo analysis failed"]
          ELSE IF ~pegasus_result.success
          THEN [counted EXCEPT !.stage = "engine_returned",
                               !.result.error = "pegasus analysis failed"]
          ELSE [counted EXCEPT
                  !.current_confidence = current_confidence,
                  !.iterations =
                    Append(@, [iteration_number |-> attempt_count,
                               video_path |-> attempt_count,
                               confidence_score |-> current_confidence])]
  /\ UNCHANGED <<pc, db, loc, gv, hist, mem, sse, response>>

\* the loop is over (its test fails, or the break was taken): the final
\* status and the dict that is returned
EngineReturn ==
  /\ det.stage = "engine_loop"
  /\ ~(/\ det.attempt_count < det.max_attempts
       /\ det.current_confidence.num
            < det.confidence_threshold * det.current_confidence.den)
  /\ LET final_status ==
           IF det.current_confidence.num
                >= det.confidence_threshold * det.current_confidence.den
           THEN "completed" ELSE "max_attempts_reached"
     IN det' = [det EXCEPT
                  !.stage = "engine_returned",
                  !.result = [success |-> TRUE, status |-> final_status,
                              total_iterations |-> det.attempt_count,
                              final_video_path |->
                                IF det.iterations # << >>
                                THEN det.iterations[Len(det.iterations)].video_path
                                ELSE NoHandle,
                              error |-> None]]
  /\ UNCHANGED <<pc, db, loc, gv, hist, mem, sse, response>>

\* process_video_upload: the analysis of the uploaded video, then the early
\* return, or process_video_generation called with a dict
ProcessVideoUpload(video_path, confidence_threshold, max_attempts, marengo_result, pegasus_result) ==
  /\ det.stage = "none"
  /\ LET called == EngineLocals("process_video_upload", confidence_threshold,
                                max_attempts)
         current_confidence ==
           _calculate_overall_confidence(marengo_result.marengo_score,
                                         pegasus_result.confidence_score)
         continued ==
           process_video_generation(
             [prompt |-> 0, project_id |-> 0,
              confidence_threshold |-> confidence_threshold,
              max_attempts |-> max_attempts], "process_video_upload")
     IN det' =
          IF ~marengo_result.success
          THEN [called EXCEPT !.stage = "engine_returned",
                              !.result.error = "initial marengo analysis failed"]
          ELSE IF ~pegasus_result.success
          THEN [called EXCEPT !.stage = "engine_returned",
                              !.result.error = "initial pegasus analysis failed"]
          ELSE IF current_confidence.num
                    >= confidence_threshold * current_confidence.den
          THEN [called EXCEPT
                  !.stage = "engine_returned",
                  !.initial_confidence = current_confidence,
                  !.current_confidence = current_confidence,
                  !.iterations = <<[iteration_number |-> 0,
                                    video_path |-> video_path,
                                    confidence_score |-> current_confidence]>>,
                  !.result = [success |-> TRUE, status |-> "completed",
                              total_iterations |-> 1,
                              final_video_path |-> video_path, error |-> None]]
          ELSE [continued EXCEPT !.initial_confidence = current_confidence]
  /\ UNCHANGED <<pc, db, loc, gv, hist, mem, sse, response>>

(***************************************************************************)
(* Specification                                                            *)
(***************************************************************************)
NoJob ==
  /\ pc = "idle"
  /\ db = NoRow
  /\ loc = [current_iteration |-> 1, current_confidence |-> 0,
            current_prompt |-> 0, target_confidence |-> 100,
            max_iterations |-> DefaultMaxIterations]
  /\ gv = [prompt |-> 0, polls |-> 0, video_path |-> NoHandle, wait_time |-> 0,
           twelvelabs_video_id |-> NoHandle]
  /\ hist = NoHistory
  /\ mem = NoObservers
  /\ sse = [s \in Subscribers |-> NoStream]
  /\ response = NoResponse

Init ==
  /\ NoJob
  /\ det = NoDetection

Next ==
  \/ \E t \in TargetScores, r \in MaxRetriesValues : SubmitGenerate(t, r)
  \/ IterStart
  \/ LoopExit
  \/ GvSubmitOk
  \/ \E e \in ErrorTexts : GvSubmitFail(e)
  \/ GvPollPending
  \/ \E e \in ErrorTexts : GvPollFail(e)
  \/ GvDownloadOk
  \/ \E e \in ErrorTexts : GvDownloadFail(e)
  \/ TlCreateOk
  \/ TlCreateQuota
  \/ \E e \in ErrorTexts : TlCreateFail(e)
  \/ TlWaitReady
  \/ TlWaitQuota
  \/ \E e \in ErrorTexts : TlWaitFail(e)
  \/ \E a \in AnalysisOutcomes : GvAnalyzeReturn(a)
  \/ GvAnalyzeRaise
  \/ GvEnhance
  \/ AfterSleep
  \/ \E a \in AnalysisOutcomes : ItAnalyzeReturn(a)
  \/ ItAnalyzeRaise
  \/ RefineOk
  \/ RefineFail
  \/ Finalize
  \/ SubmitUpload
  \/ UpCreateOk
  \/ UpCreateQuota
  \/ \E e \in ErrorTexts : UpCreateFail(e)
  \/ UpWaitReady
  \/ UpWaitQuota
  \/ \E e \in ErrorTexts : UpWaitFail(e)
  \/ UpIndexed
  \/ UpIndexPending

Spec == Init /\ [][Next]_vars

\* every task step is eventually taken: each collaborator call returns, and
\* the generation poll is answered "done" or with an error after at most
\* MaxPolls turns
FairSpec == Spec /\ WF_vars(Next)

\* the requests about a job: the job's task is followed through its calls of
\* the two log functions only
ApiNext ==
  \/ \E t \in TargetScores, r \in MaxRetriesValues : SubmitGenerateObserved(t, r)
  \/ LogDetailedPublish
  \/ LogProgressPublish
  \/ LogPersist
  \/ \E v \in VideoIds : GetVideoStatus(v)
  \/ \E v \in VideoIds : GetVideoLogs(v)
  \/ \E v \in VideoIds, file_exists \in BOOLEAN : DownloadVideo(v, file_exists)

\* the subscribers of a job's log
StreamNext ==
  \/ \E t \in TargetScores : SubmitGenerateObserved(t, 0)
  \/ LogDetailedPublish
  \/ LogProgressPublish
  \/ LogPersist
  \/ \E s \in Subscribers : StreamConnect(s)
  \/ \E s \in Subscribers : StreamReplay(s)
  \/ \E s \in Subscribers : StreamDeliver(s)
  \/ \E s \in Subscribers : StreamDisconnect(s)

StreamSpec == Init /\ [][StreamNext]_vars

ApiSpec == Init /\ [][ApiNext]_vars

\* The polling loop of generate_video when the Veo operation never reports
\* done and client.operations.get never raises, one turn in its two halves.
\* The loop has no counter and no deadline.  The turns after the MaxPolls-th
\* add the same two entries again: the model leaves the log as it is then.
GvPollSleep ==
  /\ pc = "gv_poll"
  /\ db' = IF gv.polls < MaxPolls
           THEN log_detailed(log_progress(db, "waiting for generation", 20, None),
                             "polling veo")
           ELSE db
  /\ gv' = [gv EXCEPT !.polls = Min(@ + 1, MaxPolls)]
  /\ pc' = "gv_polling"
  /\ UNCHANGED <<loc, hist, observers>>

\* asyncio.sleep(10) is over, client.operations.get answers: not done
GvPollNotDone ==
  /\ pc = "gv_polling"
  /\ pc' = "gv_poll"
  /\ UNCHANGED <<db, loc, gv, hist, observers>>

NeverDoneNext ==
  \/ \E t \in TargetScores, r \in MaxRetriesValues : SubmitGenerate(t, r)
  \/ IterStart
  \/ LoopExit
  \/ GvSubmitOk
  \/ \E e \in ErrorTexts : GvSubmitFail(e)
  \/ GvPollSleep
  \/ GvPollNotDone
  \/ AfterSleep
  \/ Finalize
  \/ SubmitUpload
  \/ UpCreateOk
  \/ UpCreateQuota
  \/ \E e \in ErrorTexts : UpCreateFail(e)
  \/ UpWaitReady
  \/ UpWaitQuota
  \/ \E e \in ErrorTexts : UpWaitFail(e)
  \/ UpIndexed
  \/ UpIndexPending

NeverDoneSpec == Init /\ [][NeverDoneNext]_vars /\ WF_vars(NeverDoneNext)

\* Cancellation of the job's task.  A task is cancelled where it is
\* suspended: asyncio.CancelledError is raised by the await of asyncio.sleep
\* (the 10 s of the generation poll, inside the try of generate_video, or
\* the 30 s pause of the loop, inside no try) and is caught only by a clause
\* that names one of its classes.
CancelTask ==
  /\ pc \in {"gv_polling", "sleep"}
  /\ IF pc = "gv_polling" /\ GvExceptClause \in {"CancelledError", "BaseException"}
     THEN /\ db' = GvExcept(db, "CancelledError")
          /\ pc' = "sleep"
     ELSE /\ db' = db
          /\ pc' = "cancelled"
  /\ hist' = [hist EXCEPT !.cancelled = TRUE]
  /\ UNCHANGED <<loc, gv>>
  /\ UNCHANGED observers

CancelNext ==
  \/ Next
  \/ GvPollSleep
  \/ GvPollNotDone
  \/ CancelTask

CancelSpec == Init /\ [][CancelNext]_vars

\* a job of one iteration, and grading requests about it
GradeNext ==
  \/ \E t \in TargetScores : SubmitGenerate(t, 1)
  \/ IterStart
  \/ LoopExit
  \/ GvSubmitOk
  \/ \E e \in ErrorTexts : GvSubmitFail(e)
  \/ GvPollPending
  \/ \E e \in ErrorTexts : GvPollFail(e)
  \/ GvDownloadOk
  \/ \E e \in ErrorTexts : GvDownloadFail(e)
  \/ TlCreateOk
  \/ TlCreateQuota
  \/ \E e \in ErrorTexts : TlCreateFail(e)
  \/ TlWaitReady
  \/ TlWaitQuota
  \/ \E e \in ErrorTexts : TlWaitFail(e)
  \/ \E a \in AnalysisOutcomes : GvAnalyzeReturn(a)
  \/ GvAnalyzeRaise
  \/ GvEnhance
  \/ AfterSleep
  \/ \E a \in AnalysisOutcomes : ItAnalyzeReturn(a)
  \/ ItAnalyzeRaise
  \/ Finalize
  \/ \E v \in VideoIds, raises \in BOOLEAN, a \in AnalysisOutcomes :
       GradeVideo(v, raises, a)

GradeSpec == Init /\ [][GradeNext]_vars

\* a job as far as the analysis pass of generate_video, and that call of
\* detect_ai_generation, for every answer of the collaborators
DetectNext ==
  \/ \E t \in TargetScores : SubmitGenerate(t, 1)
  \/ IterStart
  \/ GvSubmitOk
  \/ GvDownloadOk
  \/ TlCreateOk
  \/ TlWaitReady
  \/ \E queries \in [1..MaxCategories -> SearchAnswers],
        prompts \in [1..NumAnalysisPrompts -> PegasusAnswers] :
       StartDetection(queries, prompts)
  \/ SearchQuery
  \/ AnalyzePrompt
  \/ DetectScore
  \/ DetectReturn
  \/ DetectRaise
  \/ DetectStore

DetectSpec == Init /\ [][DetectNext]_vars

\* the score functions on every list of ScoreInputs, and the engine's
\* combination on every pair of EngineInputs
ScoreInit ==
  /\ NoJob
  /\ det \in ScoreInputs \cup EngineInputs

ScoreNext ==
  \/ CalculateQualityScore
  \/ CalculateAiDetectionScore
  \/ CalculateOverallConfidence

ScoreSpec == ScoreInit /\ [][ScoreNext]_vars

\* one call of the engine, for every request the API accepts and every
\* answer of the generator and of the two analyzers
EngineNext ==
  \/ \E confidence_threshold \in {0, 50, 85, 100}, max_attempts \in 1..MaxAttempts :
       ProcessVideoGeneration([attrs |-> [prompt |-> 0, project_id |-> 0,
                                          confidence_threshold |-> confidence_threshold,
                                          max_attempts |-> max_attempts]])
  \/ \E generated \in BOOLEAN, marengo_success \in BOOLEAN,
        pegasus_success \in BOOLEAN,
        marengo_score \in {Frac(0, 1), Frac(100, 1)},
        confidence_score \in {Frac(0, 1), Frac(1, 1)} :
       EngineAttempt(generated,
                     [success |-> marengo_success, marengo_score |-> marengo_score],
                     [success |-> pegasus_success,
                      confidence_score |-> confidence_score])
  \/ EngineReturn
  \/ \E confidence_threshold \in {0, 50, 85, 100}, max_attempts \in 1..MaxAttempts,
        marengo_success \in BOOLEAN, pegasus_success \in BOOLEAN,
        marengo_score \in {Frac(0, 1), Frac(100, 1)},
        confidence_score \in {Frac(0, 1), Frac(1, 1)} :
       ProcessVideoUpload(MaxAttempts + 1, confidence_threshold, max_attempts,
                          [success |-> marengo_success,
                           marengo_score |-> marengo_score],
                          [success |-> pegasus_success,
                           confidence_score |-> confidence_score])

EngineSpec == Init /\ [][EngineNext]_vars

(***************************************************************************)
(* Properties                                                               *)
(***************************************************************************)
\* C1: once the stored status is 'completed' or 'failed', no later step
\* changes it.
TerminalStatusIsFinal ==
  [][db.status \in {"completed", "failed"} => db'.status = db.status]_vars

\* C2: a generation failure or a non-quota ingestion failure in iteration i
\* is fatal: no iteration after i is started, and the job ends with status
\* 'failed' and a non-empty error_message.
FailureIsFatal ==
  hist.failedAt > 0 =>
    /\ hist.started = hist.failedAt
    /\ pc = "done" => (db.status = "failed" /\ db.error_message \notin {None, ""})

\* C3: with a budget of N >= 1 iterations and a positive target, when every
\* generation and ingestion succeeds and every analysis returns a score
\* below the target, the finished job has run exactly N iterations, is
\* 'completed', and stores the last computed score.
NeverReachesTarget ==
  /\ loc.target_confidence > 0
  /\ loc.max_iterations >= 1
  /\ ~hist.offTrack

BudgetTermination ==
  (pc = "done" /\ NeverReachesTarget) =>
    /\ hist.started = db.max_iterations
    /\ db.status = "completed"
    /\ db.current_confidence = hist.lastScore

BudgetTerminationWitness ==
  /\ pc = "done"
  /\ NeverReachesTarget
  /\ hist.started = 3
  /\ db.current_confidence = 94
  /\ hist.lastScore = 94

InLog(d, message) == \E j \in DOMAIN d.detailed_logs : d.detailed_logs[j] = message

QuotaSoftLanding ==
  hist.quotaAt = 1 =>
    /\ hist.started = 1
    /\ pc = "done" =>
         /\ db.status = "completed"
         /\ db.video_path # NoHandle
         /\ db.current_confidence = 0
         /\ InLog(db, "usage limit reached - video saved locally")

SuccessDeclared == hist.declaredAt > 0

FailedHasErrorMessage ==
  db.status = "failed" => db.error_message # None

FailedHasErrorMessageWitness ==
  /\ db.status = "failed"
  /\ db.error_message # None
  /\ hist.failedAt = 2

\* C9: the stored iteration_count never exceeds the stored max_iterations,
\* for every submitted max_retries.
IterationWithinBudget ==
  db.iteration_count <= db.max_iterations

IterationWithinBudgetWitness ==
  /\ db.iteration_count = db.max_iterations
  /\ db.max_iterations >= 2
  /\ loc.max_iterations = db.max_iterations
  /\ pc = "done"

\* C10: when the refinement call fails in iteration i, then i is below the
\* budget, the job is not ended (the loop is about to start iteration i+1
\* with the description of iteration i), and iteration i+1 is generated from
\* the description iteration i was generated from.
RefinementFailureKeepsDescription ==
  hist.refineFailedAt > 0 =>
    /\ hist.refineFailedAt < loc.max_iterations
    /\ hist.started >= hist.refineFailedAt
    /\ hist.started = hist.refineFailedAt =>
         /\ pc = "loop"
         /\ LoopCondition(loc)
         /\ loc.current_prompt = hist.descAtRefineFail
    /\ hist.started = hist.refineFailedAt + 1 =>
         gv.prompt = hist.descAtRefineFail

RefinementFailureWitness ==
  /\ hist.refineFailedAt = 2
  /\ hist.started = 3
  /\ hist.descAtRefineFail = 1
  /\ gv.prompt = 1

\* C11: when iteration max_iterations has finished without meeting the
\* target, the job is 'completed' and its stored currentScore is the highest
\* score any iteration was given.
Exhausted ==
  /\ pc = "done"
  /\ loc.target_confidence > 0
  /\ loc.max_iterations >= 1
  /\ hist.started = loc.max_iterations
  /\ hist.declaredAt = 0
  /\ hist.failedAt = 0
  /\ hist.quotaAt = 0

BestScoreStored ==
  Exhausted =>
    (db.status = "completed" /\ db.current_confidence = hist.bestScore)

\* C12: an exception raised in the loop outside generation (by the analysis,
\* the scoring or the refinement of iteration i) stops the job: no iteration
\* after i is started, and the row is 'failed' with an error_message.
UnexpectedExceptionIsFatal ==
  hist.raisedAt > 0 =>
    /\ hist.started = hist.raisedAt
    /\ db.status = "failed"
    /\ db.error_message # None

\* C13: the stored log is append-only: every step keeps all the entries it
\* finds in the log, in their order.
RECURSIVE IsSubsequence(_, _)
IsSubsequence(old, new) ==
  IF old = << >> THEN TRUE
  ELSE IF new = << >> THEN FALSE
  ELSE IF Head(old) = Head(new) THEN IsSubsequence(Tail(old), Tail(new))
  ELSE IsSubsequence(old, Tail(new))

AppendOnlyLog ==
  [][IsSubsequence(db.detailed_logs, db'.detailed_logs)]_vars

\* C14: persist before publish: an entry that observers can see (it is in
\* progress_logs or on a subscriber's queue) is in the stored log.
Range(seq) == {seq[i] : i \in DOMAIN seq}

Visible ==
  Range(mem.progress_logs) \cup UNION {Range(mem.queues[s]) : s \in Subscribers}

PersistBeforePublish ==
  Visible \subseteq Range(db.detailed_logs)

\* C15: a call of log_detailed that meets a full queue still puts the entry
\* on every other registered queue, keeps those queues registered, and is
\* followed by the append of the entry to the stored log.
FullQueues == {c \in Range(mem.log_streams) : Len(mem.queues[c]) >= QueueBound}

DetailedPublished ==
  /\ mem'.count = mem.count + 1
  /\ mem'.pending # << >>
  /\ mem'.pending[1].kind = "detailed"

PublicationNeverBlocks ==
  /\ [][/\ (DetailedPublished /\ FullQueues # {}) =>
             \A c \in Range(mem.log_streams) \ FullQueues :
               /\ mem'.queues[c] = Append(mem.queues[c], LogEntry(mem'.count))
               /\ c \in Range(mem'.log_streams)
        /\ (mem.pending # << >> /\ mem'.pending = << >>) =>
             db'.detailed_logs = Append(db.detailed_logs, mem.pending[1].log_entry)
       ]_vars
  /\ [](mem.pending # << >> => ENABLED LogPersist)

\* a stream that is connected and whose queue was taken off log_streams
Dropped(s) == sse[s].pc \in {"replay", "live"} /\ s \notin Range(mem.log_streams)

PublicationNeverBlocksWitness ==
  /\ mem.pending = << >>
  /\ mem.count >= 2
  /\ \E s1, s2 \in Subscribers :
       /\ Dropped(s1)
       /\ LogEntry(mem.count) \notin Range(mem.queues[s1])
       /\ s2 \in Range(mem.log_streams)
       /\ LogEntry(mem.count) \in Range(mem.queues[s2])
  /\ LogEntry(mem.count) \in Range(db.detailed_logs)

\* C16: at most once: no stream yields the same entry twice, neither within
\* the replay of the stored log nor between the replay and the live queue.
NoDuplicates(seq) ==
  \A i, j \in DOMAIN seq : i # j => seq[i] # seq[j]

AtMostOnce ==
  \A s \in Subscribers : NoDuplicates(sse[s].delivered)

AtMostOnceWitness ==
  \E s \in Subscribers :
    /\ sse[s].pc = "live"
    /\ Len(sse[s].delivered) = Len(SubmitMessages) + 2
    /\ sse[s].delivered[1] = SubmitMessages[1]
    /\ LogEntry(1) \in Range(sse[s].delivered)
    /\ LogEntry(2) \in Range(sse[s].delivered)
    /\ Range(sse[s].delivered) \subseteq Range(db.detailed_logs)

\* C17: a status, log or artifact query for an id without a row answers with
\* the not-found error, never with a successful response.
Queries == {"get_video_status", "get_video_logs", "download_video"}

UnknownIdIsNotFound ==
  (response.request.handler \in Queries /\ ~response.request.row_found) =>
    (~response.reply.success /\ response.reply.status_code = 404)

\* C18: the step of the generate endpoint leaves the row committed with
\* status 'pending', answers with the id of that row, and has started no
\* iteration; until the task starts its first iteration the row stays so.
SubmitIsAsynchronous ==
  /\ [][(pc = "idle" /\ pc' = "loop") =>
          /\ db'.id # NoRow.id
          /\ db'.status = "pending"
          /\ response'.reply.success
          /\ response'.reply.video_id = db'.id
          /\ response'.reply.status = "pending"
          /\ hist' = NoHistory]_vars
  /\ []((pc = "loop" /\ hist.started = 0) =>
          (db.status = "pending" /\ response.reply.video_id = db.id))

SubmitIsAsynchronousWitness ==
  /\ pc = "loop"
  /\ hist.started = 0
  /\ db.status = "pending"
  /\ db.id = JobId
  /\ response.request.handler = "generate_video"
  /\ response.reply.video_id = JobId

\* C19: when the generation collaborator never reports completion, the job
\* still leaves the polling loop of generate_video (with a timeout error, on
\* its way to a terminal status).
BoundedGenerationWait ==
  (pc = "gv_poll") ~> (pc \notin {"gv_poll", "gv_polling"})

\* C20: while the job's task waits on a collaborator, a request handler can
\* take a step.
WaitingOnCollaborator ==
  {"gv_poll", "tl_wait", "gv_analyze", "it_analyze", "up_wait", "up_index"}

WaitSuspendsOnlyOwnTask ==
  pc \in WaitingOnCollaborator => ENABLED (\E v \in VideoIds : GetVideoLogs(v))

\* C21: the step in which the job's task is cancelled at a suspension point,
\* and every step after it, leaves the row as it was last committed: the
\* cancellation writes neither 'completed' nor 'failed'.
CancellationLeavesRow ==
  [][hist'.cancelled => db' = db]_vars

CancellationWitness ==
  /\ pc = "cancelled"
  /\ hist.cancelled
  /\ hist.started = 2
  /\ db.status = "generating"
  /\ db.progress = 20

\* C22: a search query or an analysis prompt that raises is not propagated:
\* the run still asks every category and every prompt, aggregates the
\* answers of those that did not raise, and scores them; no exception leaves
\* the run before the score is computed.
RECURSIVE AnsweredClips(_)
AnsweredClips(queries) ==
  IF queries = << >> THEN 0
  ELSE (IF Head(queries).raises THEN 0 ELSE Head(queries).clips)
       + AnsweredClips(Tail(queries))

RECURSIVE AnsweredTexts(_)
AnsweredTexts(prompts) ==
  IF prompts = << >> THEN << >>
  ELSE (IF Head(prompts).has_data THEN <<Head(prompts).text>> ELSE << >>)
       \o AnsweredTexts(Tail(prompts))

PerQueryFaultTolerance ==
  /\ det.stage = "raised" => det.quality_score # NoScore
  /\ det.stage \in {"score", "logs", "returned", "raised", "stored"} =>
       /\ det.queried = Len(det.queries)
       /\ det.analyzed = Len(det.prompts)
       /\ det.search_results = SearchResults(AnsweredClips(det.queries))
       /\ det.analysis_results = PegasusResults(AnsweredTexts(det.prompts))
  /\ det.stage \in {"logs", "returned", "raised", "stored"} =>
       det.quality_score = _calculate_quality_score(det.search_results,
                                                    det.analysis_results)

PerQueryFaultToleranceWitness ==
  /\ det.stage = "returned"
  /\ det.queries[1].raises
  /\ det.prompts[2].raises
  /\ Len(det.search_results) = 6
  /\ Len(det.analysis_results) = 2
  /\ det.result.quality_score = 82

\* C23: for every list of indicators and findings _calculate_quality_score
\* returns max(100 - min(3 * |indicators|, 50) - min(8 * k, 50), 0), k being
\* the number of findings whose text contains a term of the negative-quality
\* vocabulary, and 100 when both lists are empty.
QualityFlagged(analysis_results) ==
  {i \in DOMAIN analysis_results :
     Content(analysis_results[i]) \in QualityIssueTerms}

QualityScoreFormula ==
  (det.stage = "score_functions" /\ "_calculate_quality_score" \in det.called) =>
    LET n == Len(det.search_results)
        k == Cardinality(QualityFlagged(det.analysis_results))
    IN /\ det.quality_score = Max(100 - Min(3 * n, 50) - Min(8 * k, 50), 0)
       /\ (det.search_results = << >> /\ det.analysis_results = << >>) =>
            det.quality_score = 100

QualityScoreFormulaWitness ==
  /\ det.stage = "score_functions"
  /\ "_calculate_quality_score" \in det.called
  /\ Len(det.search_results) = 12
  /\ Cardinality(QualityFlagged(det.analysis_results)) = 2
  /\ Len(det.analysis_results) = 2
  /\ det.quality_score = 48

\* C24: _calculate_ai_detection_score returns 0.7 * S + 0.3 * A when both
\* indicators and detection-relevant findings are present, the one that is
\* present when only one is, and 0 otherwise; S is the average confidence of
\* the indicators, A the severity score of the detection-relevant findings.
OwnConfidence(result) ==
  IF IsDict(result) THEN Get(result, "confidence", 0)
  ELSE getattr(result, "confidence", 0)

RECURSIVE TotalOwnConfidence(_)
TotalOwnConfidence(search_results) ==
  IF search_results = << >> THEN 0
  ELSE OwnConfidence(Head(search_results)) + TotalOwnConfidence(Tail(search_results))

DetectionRelevant(analysis_results) ==
  SelectSeq(analysis_results, LAMBDA result : Content(result) \in AiIndicatorTerms)

DetectionScoreCalled ==
  det.stage = "score_functions" /\ "_calculate_ai_detection_score" \in det.called

DetectionCombination ==
  DetectionScoreCalled =>
    LET S == Frac(TotalOwnConfidence(det.search_results), Len(det.search_results))
        A == det.ai_detection_score.analysis_score
        indicators == det.search_results # << >>
        findings == DetectionRelevant(det.analysis_results) # << >>
    IN /\ ~det.ai_detection_score.raises
       /\ FracEq(det.ai_detection_score.final_score,
                 IF indicators /\ findings THEN Weighted(S, A)
                 ELSE IF indicators THEN S
                 ELSE IF findings THEN A
                 ELSE Frac(0, 1))

\* C25: the severity score of _calculate_ai_detection_score is the average,
\* over the detection-relevant findings, of the weight of each finding's own
\* severity (high 30, medium 20, low 10), for dicts as well as for objects.
OwnSeverity(result) ==
  IF IsDict(result) THEN Get(result, "severity", "medium")
  ELSE getattr(result, "severity", "medium")

RECURSIVE TotalOwnSeverity(_)
TotalOwnSeverity(findings) ==
  IF findings = << >> THEN 0
  ELSE (CASE OwnSeverity(Head(findings)) = "high" -> 30
          [] OwnSeverity(Head(findings)) = "medium" -> 20
          [] OwnSeverity(Head(findings)) = "low" -> 10)
       + TotalOwnSeverity(Tail(findings))

SeverityScoreIsAverage ==
  (DetectionScoreCalled /\ ~det.ai_detection_score.raises) =>
    LET findings == DetectionRelevant(det.analysis_results)
    IN findings # << >> =>
         FracEq(det.ai_detection_score.analysis_score,
                Frac(TotalOwnSeverity(findings), Len(findings)))

\* C26: every score that is computed lies in [0, 100] (the quality score,
\* the detection score, the engine's overall confidence), and calling a
\* function again on the same input yields the same score.
InRange(f) == FracLeq(Frac(0, 1), f) /\ FracLeq(f, Frac(100, 1))

ScoresInRange ==
  /\ det.stage = "score_functions" =>
       /\ "_calculate_quality_score" \in det.called =>
            (det.quality_score >= 0 /\ det.quality_score <= 100)
       /\ ("_calculate_ai_detection_score" \in det.called
             /\ ~det.ai_detection_score.raises) =>
            InRange(det.ai_detection_score.final_score)
  /\ (det.stage = "engine" /\ "_calculate_overall_confidence" \in det.called) =>
       InRange(det.overall_confidence)

ScoresDeterministic ==
  [][/\ (det.stage = "score_functions"
          /\ "_calculate_quality_score" \in det.called) =>
           det'.quality_score = det.quality_score
     /\ (det.stage = "score_functions"
          /\ "_calculate_ai_detection_score" \in det.called) =>
           det'.ai_detection_score = det.ai_detection_score
     /\ (det.stage = "engine"
          /\ "_calculate_overall_confidence" \in det.called) =>
           det'.overall_confidence = det.overall_confidence]_vars

StatusRoundTrip ==
  (response.request.handler = "get_video_status" /\ response.request.row_found) =>
    /\ response.reply.confidence_threshold = loc.target_confidence
    /\ loc.max_iterations >= 1 => response.reply.max_iterations = loc.max_iterations
    /\ response.reply.status = db.status
    /\ response.reply.current_confidence = db.current_confidence
    /\ response.reply.iteration_count = db.iteration_count
    /\ response.reply.video_path = db.video_path

\* C28: grading a job that is 'completed' and whose artifact is indexed
\* answers with success, and the data of the answer contains quality_score.
GradingReturnsAnalysis ==
  (/\ response.request.handler = "grade_video"
   /\ response.request.row_found
   /\ response.request.completed
   /\ response.request.indexed) =>
    /\ response.reply.success
    /\ response.reply.status_code = 200
    /\ "quality_score" \in DOMAIN response.reply.data

\* C29: the dict detect_ai_generation returns carries a quality score and a
\* detection score, and the detection score generate_video goes on with is
\* the one computed from the indicators and findings of that run, never a
\* default.
DetectionScoreFromRun ==
  /\ det.stage \in {"returned", "stored"} =>
       {"quality_score", "ai_detection_score"} \subseteq DOMAIN det.result
  /\ det.stage = "stored" =>
       FracEq(Frac(det.ai_detection_score, 1),
              _calculate_ai_detection_score(det.search_results,
                                            det.analysis_results).final_score)

\* C30: in a run of detect_ai_generation every answer of the analysis whose
\* text contains a negative-quality term counts 8 toward the finding penalty
\* of the quality score (12 indicators and 2 such answers: quality 48).
FlaggedAnswers(prompts) ==
  {i \in DOMAIN prompts :
     /\ ~prompts[i].raises
     /\ prompts[i].has_data
     /\ Lower(prompts[i].text) \in QualityIssueTerms}

FindingPenaltyEndToEnd ==
  det.stage \in {"logs", "returned", "raised", "stored"} =>
    LET n == Len(det.search_results)
        k == Cardinality(FlaggedAnswers(det.prompts))
    IN det.quality_score = Max(100 - Min(3 * n, 50) - Min(8 * k, 50), 0)

\* C31: every entry the analysis steps of a running job have called
\* log_detailed with (detect_ai_generation and _search_for_ai_indicators) is
\* in the durable log of that job
AnalysisEventsInJobLog ==
  (db.id = JobId /\ det.stage # "none")
    => \A i \in DOMAIN det.emitted :
         \E j \in DOMAIN db.detailed_logs : db.detailed_logs[j] = det.emitted[i]

\* C32: the score the loop stores for iteration i comes from an analysis of
\* the artifact generated in iteration i: when the analysis step of the loop
\* writes to the row, the handle it read from the row is the one of the
\* current iteration's artifact
ScoreFromOwnArtifact ==
  [][(pc = "it_analyze" /\ pc' # "it_analyze" /\ db' # db)
       => db.twelvelabs_video_id = loc.current_iteration]_vars

\* C33: a job that generate_iterative_video has left as 'completed', with a
\* target within 0..100 and a budget of at least one iteration, has started
\* at least one generation attempt
CompletedAfterAnAttempt ==
  (/\ pc = "done"
   /\ db.status = "completed"
   /\ loc.target_confidence \in 0..100
   /\ loc.max_iterations >= 1)
    => hist.started >= 1

\* C34: when an iteration of the loop whose artifact was indexed is over
\* (the iteration counter moves on, or the success branch leaves the loop),
\* detect_ai_generation was called exactly once in it
OneAnalysisPassPerIteration ==
  [][(/\ db.twelvelabs_video_id = loc.current_iteration
      /\ \/ loc'.current_iteration = loc.current_iteration + 1
         \/ (pc = "it_analyze" /\ pc' = "final"))
       => hist'.passes = 1]_vars

\* C35: a status query is read-only: the step in which get_video_status
\* answers leaves every column of the job's row, its durable log included,
\* and every subscriber queue as they were
StatusQueryIsReadOnly ==
  [][(response' # response /\ response'.request.handler = "get_video_status")
       => (db' = db /\ mem'.queues = mem.queues)]_vars

\* C36: when a call of log_progress or log_detailed appends its entry to the
\* durable log, every registered subscriber whose queue had room for the
\* entry has it as the latest entry of its queue
LiveStreamAgreesWithLog ==
  [][(mem.pending # << >> /\ db'.detailed_logs # db.detailed_logs)
       => \A i \in DOMAIN mem.log_streams :
            LET client_queue == mem.queues[mem.log_streams[i]]
            IN Len(client_queue) < QueueBound
                 => /\ client_queue # << >>
                    /\ client_queue[Len(client_queue)] = mem.pending[1].log_entry]_vars

\* C37: a call of process_video_generation makes at most max_attempts
\* generation attempts, and when it returns success with status 'completed'
\* at least one iteration was executed and final_video_path is not None
EngineCompletedHasVideo ==
  /\ det.stage \in {"engine_loop", "engine_returned"}
       => det.attempt_count <= det.max_attempts
  /\ (/\ det.stage = "engine_returned"
      /\ det.function = "process_video_generation"
      /\ det.result.success
      /\ det.result.status = "completed")
       => /\ det.result.total_iterations >= 1
          /\ det.iterations # << >>
          /\ det.result.final_video_path # NoHandle

\* C38: a call of process_video_upload whose two initial analyses succeeded
\* returns success 'completed' without any generation when the initial
\* confidence meets the threshold; otherwise it has gone through at least
\* one generation attempt, and it returns success when an attempt reached
\* the threshold
UploadContinuesWithLoop ==
  (/\ det.stage = "engine_returned"
   /\ det.function = "process_video_upload"
   /\ det.result.error \notin {"initial marengo analysis failed",
                                "initial pegasus analysis failed"})
    => IF det.initial_confidence.num
            >= det.confidence_threshold * det.initial_confidence.den
       THEN /\ det.result.success
            /\ det.result.status = "completed"
            /\ det.attempt_count = 0
       ELSE /\ det.attempt_count >= 1
            /\ det.current_confidence.num
                   >= det.confidence_threshold * det.current_confidence.den
                 => det.result.success

====
